---------------------------- MODULE Spec2Model ----------------------------
(***************************************************************************)
(* A model of vite-plugin-react-material-symbols: the plugin factory, its  *)
(* transformIndexHtml handler, the directory collector, the file processor *)
(* and the expression walker of src/src/utils.ts.                          *)
(*                                                                         *)
(* A JavaScript string is a sequence of text pieces.  The pieces of an     *)
(* icon name or of a class value are single characters (and the class      *)
(* markers, which the code only searches for as a whole); the fixed text   *)
(* of the stylesheet address is written as longer pieces.  Trimming,       *)
(* substring search and comparison work piece by piece.                    *)
(***************************************************************************)
EXTENDS Naturals, Sequences, FiniteSets, TLC

VARIABLES
    options,     \* the destructured plugin arguments, defaults applied
    icons,       \* the closure's Set<string>, in insertion order
    fs,          \* the file system the handler reads
    pc,          \* where the handler is: "idle", "paths", "dir", "files", "build"
    scanIdx,     \* index into options.paths of the directory loop
    fileContents,\* files of the current directory still to process
    fileIdx,     \* index into options.files of the explicit file loop
    html,        \* the document handed to the running invocation
    result,      \* how the last finished invocation ended
    found,       \* names extracted from files during the current invocation
    log,         \* one record per finished invocation
    expr,        \* the expression under test (expression specification)
    acc,         \* the accumulator the walker is applied to
    walked,      \* whether the walker has been applied to expr
    matched,     \* the class matcher's answer for expr, once asked
    element      \* the element under test (element specification)

vars == <<options, icons, fs, pc, scanIdx, fileContents, fileIdx, html,
          result, found, log, expr, acc, walked, matched, element>>

handlerVars == <<options, icons, fs, pc, scanIdx, fileContents, fileIdx, html,
                 result, found, log>>

exprVars == <<expr, acc, walked, matched, element>>

\* Bounds of the model.
MaxRuns == 2
MaxDepth == 2

Range(s) == {s[i] : i \in 1..Len(s)}

(***************************************************************************)
(* Strings                                                                 *)
(***************************************************************************)
WhiteSpace == {" ", "\n", "\t"}

\* UTF-16 code units of the characters the model's names are written with.
Code ==
    ("\t" :> 9) @@ ("\n" :> 10) @@ (" " :> 32) @@ ("_" :> 95) @@
    ("a" :> 97) @@ ("c" :> 99) @@ ("e" :> 101) @@ ("g" :> 103) @@
    ("h" :> 104) @@ ("i" :> 105) @@ ("l" :> 108) @@ ("m" :> 109) @@
    ("n" :> 110) @@ ("o" :> 111) @@ ("r" :> 114) @@ ("s" :> 115) @@
    ("t" :> 116) @@ ("u" :> 117)

RECURSIVE TrimStart(_)
TrimStart(s) ==
    IF s # <<>> /\ Head(s) \in WhiteSpace THEN TrimStart(Tail(s)) ELSE s

RECURSIVE TrimEnd(_)
TrimEnd(s) ==
    IF s # <<>> /\ s[Len(s)] \in WhiteSpace
    THEN TrimEnd(SubSeq(s, 1, Len(s) - 1))
    ELSE s

\* String.prototype.trim
Trim(s) == TrimEnd(TrimStart(s))

\* String.prototype.includes
Includes(s, search) ==
    \E i \in 0..Len(s) :
        /\ i + Len(search) <= Len(s)
        /\ SubSeq(s, i + 1, i + Len(search)) = search

\* The order of Array.prototype.sort without a comparator: by code units.
RECURSIVE StrLess(_, _)
StrLess(a, b) ==
    IF b = <<>> THEN FALSE
    ELSE IF a = <<>> THEN TRUE
    ELSE IF Code[Head(a)] # Code[Head(b)] THEN Code[Head(a)] < Code[Head(b)]
    ELSE StrLess(Tail(a), Tail(b))

\* Array.prototype.push in place of Set.prototype.add
SetAddPush(set, x) == Append(set, x)

\* Set.prototype.add on an insertion-ordered set
SetAdd(set, x) == IF x \in Range(set) THEN set ELSE Append(set, x)

RECURSIVE SetAddAll(_, _)
SetAddAll(set, xs) ==
    IF xs = <<>> THEN set ELSE SetAddAll(SetAdd(set, Head(xs)), Tail(xs))

\* new Set<string>(safelist)
\* The safelist dropped: new Set<string>()
NewSetEmpty(safelist) == <<>>
NewSet(safelist) == SetAddAll(<<>>, safelist)

(***************************************************************************)
(* The compiled-in variant tables.  A variant that was not given indexes   *)
(* the table with undefined, and the lookup yields undefined, which a      *)
(* template literal and String.prototype.includes turn into "undefined".   *)
(***************************************************************************)
Variants == {"sharp", "rounded", "outlined"}
Undefined == "undefined"

variantToFontMap(variant) ==
    CASE variant = "sharp" -> <<"Material+Symbols+Sharp">>
      [] variant = "rounded" -> <<"Material+Symbols+Rounded">>
      [] variant = "outlined" -> <<"Material+Symbols+Outlined">>
      [] OTHER -> <<Undefined>>

variantToClassNameMap(variant) ==
    CASE variant = "sharp" -> <<"material-symbols-sharp">>
      [] variant = "rounded" -> <<"material-symbols-rounded">>
      [] variant = "outlined" -> <<"material-symbols-outlined">>
      [] OTHER -> <<Undefined>>

(***************************************************************************)
(* Syntax trees.  Every node is a record with a type field; Null is an     *)
(* absent node.                                                            *)
(***************************************************************************)
Null == [type |-> "null"]
StringLiteral(v) == [type |-> "StringLiteral", value |-> v]
Identifier(n) == [type |-> "Identifier", name |-> n]
SpreadElement(e) == [type |-> "SpreadElement", argument |-> e]
JSXEmptyExpression == [type |-> "JSXEmptyExpression"]
ConditionalExpression(t, c, a) ==
    [type |-> "ConditionalExpression", test |-> t, consequent |-> c, alternate |-> a]
LogicalExpression(l, r) == [type |-> "LogicalExpression", left |-> l, right |-> r]
CallExpression(args) == [type |-> "CallExpression", arguments |-> args]
\* quasis: the cooked text of each static segment; one more than expressions
TemplateLiteral(qs, es) == [type |-> "TemplateLiteral", quasis |-> qs, expressions |-> es]
Quasi(text) == [hasCooked |-> TRUE, cooked |-> text]
JSXExpressionContainer(e) == [type |-> "JSXExpressionContainer", expression |-> e]
JSXText(v) == [type |-> "JSXText", value |-> v]
JSXElementChild == [type |-> "JSXElement"]
JSXAttribute(n, v) == [type |-> "JSXAttribute", name |-> n, value |-> v]
JSXSpreadAttribute == [type |-> "JSXSpreadAttribute"]
JSXElement(attrs, kids) == [attributes |-> attrs, children |-> kids]

\* if (iconName) icons.add(iconName), for iconName = text.trim()
AddTrimmed(set, text) ==
    IF Trim(text) # <<>> THEN SetAdd(set, Trim(text)) ELSE set

\* A walker that follows one branch, one operand and one argument only, and takes
\* the first segment of any template
RECURSIVE extractIconsFromExpressionOneBranch(_, _)
extractIconsFromExpressionOneBranch(expression, set) ==
    IF expression.type = "StringLiteral" THEN AddTrimmed(set, expression.value)
    ELSE IF expression.type = "ConditionalExpression"
    THEN extractIconsFromExpressionOneBranch(expression.consequent, set)
    ELSE IF expression.type = "LogicalExpression"
    THEN extractIconsFromExpressionOneBranch(expression.right, set)
    ELSE IF expression.type = "TemplateLiteral" /\ Len(expression.quasis) >= 1
    THEN IF expression.quasis[1].hasCooked
         THEN AddTrimmed(set, expression.quasis[1].cooked)
         ELSE set
    ELSE IF expression.type = "CallExpression"
    THEN IF expression.arguments = <<>> THEN set
         ELSE extractIconsFromExpressionOneBranch(Head(expression.arguments), set)
    ELSE set

RECURSIVE extractIconsFromExpression(_, _)
RECURSIVE ExtractArguments(_, _)
\* expression.arguments.forEach((arg) => extractIconsFromExpression(arg, icons))
ExtractArguments(args, set) ==
    IF args = <<>> THEN set
    ELSE ExtractArguments(Tail(args), extractIconsFromExpression(Head(args), set))

extractIconsFromExpression(expression, set) ==
    IF expression.type = "null" THEN set
    ELSE IF expression.type = "StringLiteral"
    THEN AddTrimmed(set, expression.value)
    ELSE IF expression.type = "ConditionalExpression"
    THEN extractIconsFromExpression(expression.alternate,
             extractIconsFromExpression(expression.consequent, set))
    ELSE IF expression.type = "LogicalExpression"
    THEN extractIconsFromExpression(expression.right,
             extractIconsFromExpression(expression.left, set))
    ELSE IF expression.type = "TemplateLiteral" /\ Len(expression.quasis) = 1
    THEN IF expression.quasis[1].hasCooked
         THEN AddTrimmed(set, expression.quasis[1].cooked)
         ELSE set
    ELSE IF expression.type = "CallExpression"
    THEN ExtractArguments(expression.arguments, set)
    ELSE set

RECURSIVE hasMaterialSymbolsClassPlainTemplate(_, _)
\* The matcher, were it to accept a template literal only without interpolation
hasMaterialSymbolsClassPlainTemplate(classValue, fontFamily) ==
    IF classValue.type = "null" THEN FALSE
    ELSE IF classValue.type = "StringLiteral"
    THEN Includes(classValue.value, fontFamily)
    ELSE IF classValue.type = "JSXExpressionContainer"
    THEN hasMaterialSymbolsClassPlainTemplate(classValue.expression, fontFamily)
    ELSE IF classValue.type = "CallExpression"
    THEN \E i \in 1..Len(classValue.arguments) :
             hasMaterialSymbolsClassPlainTemplate(classValue.arguments[i], fontFamily)
    ELSE IF classValue.type = "ConditionalExpression"
    THEN \/ hasMaterialSymbolsClassPlainTemplate(classValue.consequent, fontFamily)
         \/ hasMaterialSymbolsClassPlainTemplate(classValue.alternate, fontFamily)
    ELSE IF classValue.type = "LogicalExpression"
    THEN \/ hasMaterialSymbolsClassPlainTemplate(classValue.left, fontFamily)
         \/ hasMaterialSymbolsClassPlainTemplate(classValue.right, fontFamily)
    ELSE IF classValue.type = "TemplateLiteral"
    THEN /\ classValue.expressions = <<>>
         /\ \E i \in 1..Len(classValue.quasis) :
                /\ classValue.quasis[i].hasCooked
                /\ Includes(classValue.quasis[i].cooked, fontFamily)
    ELSE FALSE

RECURSIVE hasMaterialSymbolsClass(_, _)
hasMaterialSymbolsClass(classValue, fontFamily) ==
    IF classValue.type = "null" THEN FALSE
    ELSE IF classValue.type = "StringLiteral"
    THEN Includes(classValue.value, fontFamily)
    ELSE IF classValue.type = "JSXExpressionContainer"
    THEN hasMaterialSymbolsClass(classValue.expression, fontFamily)
    ELSE IF classValue.type = "CallExpression"
    THEN \E i \in 1..Len(classValue.arguments) :
             hasMaterialSymbolsClass(classValue.arguments[i], fontFamily)
    ELSE IF classValue.type = "ConditionalExpression"
    THEN \/ hasMaterialSymbolsClass(classValue.consequent, fontFamily)
         \/ hasMaterialSymbolsClass(classValue.alternate, fontFamily)
    ELSE IF classValue.type = "LogicalExpression"
    THEN \/ hasMaterialSymbolsClass(classValue.left, fontFamily)
         \/ hasMaterialSymbolsClass(classValue.right, fontFamily)
    ELSE IF classValue.type = "TemplateLiteral"
    THEN \E i \in 1..Len(classValue.quasis) :
             /\ classValue.quasis[i].hasCooked
             /\ Includes(classValue.quasis[i].cooked, fontFamily)
    ELSE FALSE

RECURSIVE extractIconsFromChildren(_, _)
extractIconsFromChildren(children, set) ==
    IF children = <<>> THEN set
    ELSE LET child == Head(children)
             next == IF child.type = "JSXText" THEN AddTrimmed(set, child.value)
                     ELSE IF child.type = "JSXExpressionContainer"
                     THEN extractIconsFromExpression(child.expression, set)
                     ELSE set
         IN  extractIconsFromChildren(Tail(children), next)

\* attributes.find(...): the first JSXAttribute of that name, or Null
FindAttribute(attributes, attributeName) ==
    LET hits == {i \in 1..Len(attributes) :
                    /\ attributes[i].type = "JSXAttribute"
                    /\ attributes[i].name = attributeName}
    IN  IF hits = {} THEN Null
        ELSE attributes[CHOOSE i \in hits : \A j \in hits : i <= j]

extractIconsFromAttribute(attributes, attributeName, set) ==
    LET attribute == FindAttribute(attributes, attributeName)
    IN  IF attribute.type = "JSXAttribute" /\ attribute.value.type # "null"
        THEN IF attribute.value.type = "StringLiteral"
             THEN AddTrimmed(set, attribute.value.value)
             ELSE IF attribute.value.type = "JSXExpressionContainer"
             THEN extractIconsFromExpression(attribute.value.expression, set)
             ELSE set
        ELSE set

RECURSIVE ExtractIconProps(_, _, _)
\* for (const prop of iconProps) extractIconsFromAttribute(attributes, prop, icons)
ExtractIconProps(attributes, iconProps, set) ==
    IF iconProps = <<>> THEN set
    ELSE ExtractIconProps(attributes, Tail(iconProps),
             extractIconsFromAttribute(attributes, Head(iconProps), set))

\* The JSXElement visitor of processReactFile
VisitJSXElement(node, set, variant, iconProps) ==
    LET classNameAttribute == FindAttribute(node.attributes, "className")
        afterClass ==
            IF /\ classNameAttribute.type = "JSXAttribute"
               /\ hasMaterialSymbolsClass(classNameAttribute.value,
                                          variantToClassNameMap(variant))
            THEN extractIconsFromChildren(node.children, set)
            ELSE set
    IN  ExtractIconProps(node.attributes, iconProps, afterClass)

RECURSIVE Traverse(_, _, _, _)
\* traverse(ast, { JSXElement(path) {...} }): every element, in document order
Traverse(elements, set, variant, iconProps) ==
    IF elements = <<>> THEN set
    ELSE Traverse(Tail(elements),
                  VisitJSXElement(Head(elements), set, variant, iconProps),
                  variant, iconProps)

(***************************************************************************)
(* A source file's text is modelled by what the parser makes of it:        *)
(* parses tells whether parser.parse returns, and elements are the         *)
(* JSXElement nodes of the text in document order (for a text that does    *)
(* not parse, the elements before the syntax error).                       *)
(***************************************************************************)
\* A parser that recovers from errors: the elements before the error are visited
processReactFileRecovering(file, set, variant, iconProps) ==
    Traverse(file.content.elements, set, variant, iconProps)

processReactFile(file, set, variant, iconProps) ==
    IF file.content.parses
    THEN Traverse(file.content.elements, set, variant, iconProps)
    ELSE set


(***************************************************************************)
(* The file system.  A directory node is readable or not (a missing or     *)
(* unreadable directory makes fs.readdir reject); an entry is a directory, *)
(* a file or something else; a file is readable or not.                    *)
(***************************************************************************)
supportedExtensions == {".tsx", ".jsx", ".js"}

\* file.name.endsWith(ext), the name being <<base, extension>>
EndsWithSupported(name) == name # <<>> /\ name[Len(name)] \in supportedExtensions

NoContent == [parses |-> FALSE, elements |-> <<>>]
DirEntry(n, d) == [kind |-> "dir", name |-> n, dir |-> d]
FileEntry(n, readable, content) ==
    [kind |-> "file", name |-> n, readable |-> readable, content |-> content]
OtherEntry(n) == [kind |-> "other", name |-> n]
Directory(entries) == [readable |-> TRUE, entries |-> entries]
NoDirectory == [readable |-> FALSE, entries |-> <<>>]

RECURSIVE walk(_, _, _)
RECURSIVE WalkEntries(_, _, _)
RECURSIVE walkForgiving(_, _, _)
\* A walk that takes a directory it cannot list for an empty one
walkForgiving(currentDir, node, all) ==
    IF all.threw \/ ~node.readable THEN all
    ELSE WalkEntries(currentDir, node.entries, all)

\* The body of walk's for loop over the listing; all is allFileContents.
WalkEntries(currentDir, entries, all) ==
    IF all.threw \/ entries = <<>> THEN all
    ELSE LET file == Head(entries)
             fullPath == currentDir \o <<"/">> \o file.name
             next ==
                 IF file.kind = "dir" THEN walk(fullPath, file.dir, all)
                 ELSE IF file.kind = "file" /\ EndsWithSupported(file.name)
                 THEN IF file.readable
                      THEN [all EXCEPT !.files =
                               Append(@, [path |-> fullPath, content |-> file.content])]
                      ELSE [all EXCEPT !.threw = TRUE]
                 ELSE all
         IN  WalkEntries(currentDir, Tail(entries), next)

walk(currentDir, node, all) ==
    IF all.threw THEN all
    ELSE IF ~node.readable THEN [all EXCEPT !.threw = TRUE]
    ELSE WalkEntries(currentDir, node.entries, all)

\* getReactFileContents: the files found, or threw when a listing or a read rejects
getReactFileContents(disk, directory) ==
    walk(<<directory>>, disk.roots[directory], [threw |-> FALSE, files |-> <<>>])

(***************************************************************************)
(* The link builder and the final icon list                                *)
(***************************************************************************)
RECURSIVE Join(_, _)
\* Array.prototype.join
Join(list, sep) ==
    IF list = <<>> THEN <<>>
    ELSE IF Len(list) = 1 THEN list[1]
    ELSE list[1] \o <<sep>> \o Join(Tail(list), sep)

RECURSIVE Insert(_, _)
Insert(sorted, x) ==
    IF sorted = <<>> THEN <<x>>
    ELSE IF StrLess(x, Head(sorted)) THEN <<x>> \o sorted
    ELSE <<Head(sorted)>> \o Insert(Tail(sorted), x)

RECURSIVE Sort(_)
\* Array.prototype.sort without a comparator
Sort(list) ==
    IF list = <<>> THEN <<>> ELSE Insert(Sort(SubSeq(list, 1, Len(list) - 1)), list[Len(list)])

\* Array.prototype.filter((icon) => icon !== '')
FilterNonEmpty(list) == SelectSeq(list, LAMBDA icon : icon # <<>>)

\* The final list without the sort
AllIconsUnsorted(set) == FilterNonEmpty(set)

\* [...icons].filter((icon) => icon !== '').sort()
AllIcons(set) == Sort(FilterNonEmpty(set))

Href(variant, opsz, wght, FILL, GRAD, list) ==
    <<"https://fonts.googleapis.com/css2?family=">> \o variantToFontMap(variant)
        \o <<":opsz,wght,FILL,GRAD@">> \o opsz \o <<",">> \o wght \o <<",">> \o FILL
        \o <<",">> \o GRAD \o <<"&icon_names=">> \o Join(list, ",")
        \o <<"&display=block">>

createMaterialSymbolsLink(variant, opsz, wght, FILL, GRAD, list) ==
    [tag |-> "link", rel |-> "stylesheet",
     href |-> Href(variant, opsz, wght, FILL, GRAD, list)]


(***************************************************************************)
(* The inputs the model draws from: icon names, source files, two states   *)
(* of the file system, host documents and plugin arguments.                *)
(***************************************************************************)
home == <<"h", "o", "m", "e">>
search == <<"s", "e", "a", "r", "c", "h">>
login == <<"l", "o", "g", "i", "n">>
logout == <<"l", "o", "g", "o", "u", "t">>
menu == <<"m", "e", "n", "u">>
star == <<"s", "t", "a", "r">>

RoundedClass == StringLiteral(<<"i", "c", "o", "n", " ", "material-symbols-rounded">>)
SharpClass ==
    JSXExpressionContainer(CallExpression(<<
        StringLiteral(<<"material-symbols-sharp">>),
        LogicalExpression(Identifier("isActive"), StringLiteral(<<"a">>))>>))
OutlinedClass ==
    JSXExpressionContainer(TemplateLiteral(
        <<Quasi(<<"material-symbols-outlined", " ">>), Quasi(<<>>)>>,
        <<Identifier("extra")>>))
UndefinedClass == StringLiteral(<<"undefined">>)

\* <span className="icon material-symbols-rounded"> home </span>
\* <IconComponent leftIcon="search" />
AppTsx ==
    [parses |-> TRUE,
     elements |-> <<
        JSXElement(<<JSXAttribute("className", RoundedClass)>>,
                   <<JSXText(<<"\n", " ">> \o home \o <<"\n">>)>>),
        JSXElement(<<JSXSpreadAttribute, JSXAttribute("leftIcon", StringLiteral(search))>>,
                   <<>>)>>]

\* <span className="icon material-symbols-rounded">{isLoggedIn ? 'logout' : 'login'}</span>
AppTsxEdited ==
    [parses |-> TRUE,
     elements |-> <<
        JSXElement(<<JSXAttribute("className", RoundedClass)>>,
                   <<JSXText(<<"\n">>),
                     JSXExpressionContainer(ConditionalExpression(
                         Identifier("isLoggedIn"), StringLiteral(logout),
                         StringLiteral(login)))>>)>>]

\* <i className={clsx('material-symbols-sharp', isActive && 'a')}>search<b/>{name}</i>
\* <i className="undefined">star</i>
NavJsx ==
    [parses |-> TRUE,
     elements |-> <<
        JSXElement(<<JSXAttribute("className", SharpClass)>>,
                   <<JSXText(search), JSXElementChild,
                     JSXExpressionContainer(Identifier("name"))>>),
        JSXElement(<<>>, <<>>),
        JSXElement(<<JSXAttribute("className", UndefinedClass)>>, <<JSXText(star)>>)>>]

\* A text with a syntax error after its first elements
BrokenTsx ==
    [parses |-> FALSE,
     elements |-> <<
        JSXElement(<<JSXAttribute("className", RoundedClass)>>, <<JSXText(login)>>),
        JSXElement(<<JSXAttribute("className", SharpClass)>>, <<JSXText(login)>>),
        JSXElement(<<JSXAttribute("className", OutlinedClass)>>, <<JSXText(login)>>),
        JSXElement(<<JSXAttribute("className", UndefinedClass)>>, <<JSXText(login)>>)>>]

\* <i className={`material-symbols-outlined ${extra}`}>{`logout`}</i>
\* <Button leftIcon={busy ? ' ' : `menu `} />
IconsJs ==
    [parses |-> TRUE,
     elements |-> <<
        JSXElement(<<JSXAttribute("className", OutlinedClass)>>,
                   <<JSXExpressionContainer(TemplateLiteral(<<Quasi(logout)>>, <<>>))>>),
        JSXElement(<<JSXAttribute("leftIcon", JSXExpressionContainer(
                        ConditionalExpression(Identifier("busy"), StringLiteral(<<" ">>),
                            TemplateLiteral(<<Quasi(menu \o <<" ">>)>>, <<>>))))>>,
                   <<>>)>>]

\* <span className="material-symbols-rounded">login</span> and the same for the
\* other markers
ExtraTsx ==
    [parses |-> TRUE,
     elements |-> <<
        JSXElement(<<JSXAttribute("className", RoundedClass)>>, <<JSXText(login)>>),
        JSXElement(<<JSXAttribute("className", SharpClass)>>, <<JSXText(login)>>),
        JSXElement(<<JSXAttribute("className", OutlinedClass)>>, <<JSXText(login)>>),
        JSXElement(<<JSXAttribute("className", UndefinedClass)>>, <<JSXText(login)>>)>>]

ExplicitFiles ==
    ("gone.tsx" :> [readable |-> FALSE, content |-> NoContent]) @@
    ("extra.tsx" :> [readable |-> TRUE, content |-> ExtraTsx])

LibDir == Directory(<<FileEntry(<<"Icons", ".js">>, TRUE, IconsJs)>>)

\* A directory whose listing succeeds and that holds a source file no one may read
LockedDir ==
    Directory(<<
        FileEntry(<<"notes", ".css">>, FALSE, NoContent),
        DirEntry(<<"deep">>, Directory(<<
            FileEntry(<<"Extra", ".tsx">>, TRUE, ExtraTsx),
            FileEntry(<<"Secret", ".jsx">>, FALSE, NoContent)>>))>>)

FsBefore ==
    [name |-> "before",
     roots |->
        ("src" :> Directory(<<
            FileEntry(<<"App", ".tsx">>, TRUE, AppTsx),
            OtherEntry(<<"socket">>),
            FileEntry(<<"style", ".css">>, TRUE, NoContent),
            DirEntry(<<"sub">>, Directory(<<FileEntry(<<"Nav", ".jsx">>, TRUE, NavJsx)>>)),
            FileEntry(<<"Broken", ".tsx">>, TRUE, BrokenTsx)>>)) @@
        ("lib" :> LibDir) @@
        ("locked" :> LockedDir) @@
        ("missing" :> NoDirectory),
     files |-> ExplicitFiles]

\* App.tsx edited, sub/Nav.jsx and Broken.tsx removed
FsAfter ==
    [name |-> "after",
     roots |->
        ("src" :> Directory(<<
            FileEntry(<<"App", ".tsx">>, TRUE, AppTsxEdited),
            DirEntry(<<"sub">>, Directory(<<>>))>>)) @@
        ("lib" :> LibDir) @@
        ("locked" :> LockedDir) @@
        ("missing" :> NoDirectory),
     files |-> ExplicitFiles]

FileSystems == {FsBefore, FsAfter}

Stylesheet == [tag |-> "link", rel |-> "stylesheet", href |-> <<"/app.css">>]
Documents ==
    {[head |-> <<>>, body |-> <<>>],
     [head |-> <<[tag |-> "title"], Stylesheet>>, body |-> <<[tag |-> "div"]>>]}

NoDocument == [head |-> <<>>, body |-> <<>>]

\* paths as the caller gave it: given is FALSE when the argument is absent
PathsChoices ==
    {[given |-> FALSE, list |-> <<>>],
     [given |-> TRUE, list |-> <<"src", "lib">>],
     [given |-> TRUE, list |-> <<"src", "missing", "lib">>],
     [given |-> TRUE, list |-> <<"lib", "locked">>]}

SafelistChoices ==
    {<<>>, <<search, home>>, <<menu, <<>>, home>>,
     <<<<" ">>, <<" ">> \o menu, home, home>>}

FilesChoices == {<<>>, <<"gone.tsx", "extra.tsx">>}
IconPropsChoices == {<<>>, <<"leftIcon">>}

DefaultAxes ==
    [opsz |-> <<"20..48">>, wght |-> <<"100..700">>, FILL |-> <<"0..1">>,
     GRAD |-> <<"-50..200">>]
AxesChoices ==
    {DefaultAxes,
     [opsz |-> <<"24">>, wght |-> <<"300..600">>, FILL |-> <<"1">>, GRAD |-> <<>>]}

\* The destructuring of the plugin's argument, with its defaults
Options ==
    {[variant |-> v, paths |-> p, safelist |-> s, files |-> f, iconProps |-> ip,
      opsz |-> a.opsz, wght |-> a.wght, FILL |-> a.FILL, GRAD |-> a.GRAD] :
        v \in Variants \cup {Undefined}, p \in PathsChoices, s \in SafelistChoices,
        f \in FilesChoices, ip \in IconPropsChoices, a \in AxesChoices}

(***************************************************************************)
(* The plugin and its handler                                              *)
(***************************************************************************)
NoResult == [status |-> "none", icons |-> <<>>, document |-> NoDocument]

NoMatch == [asked |-> FALSE, variant |-> Undefined, answer |-> FALSE]
NoElement == JSXElement(<<>>, <<>>)

ExprIdle ==
    /\ expr = Null
    /\ acc = <<>>
    /\ walked = FALSE
    /\ matched = NoMatch
    /\ element = NoElement

\* vitePluginReactMaterialSymbols(options): the plugin object, handler not yet called
Init ==
    /\ options \in Options
    /\ icons = NewSet(options.safelist)
    /\ fs \in FileSystems
    /\ pc = "idle"
    /\ scanIdx = 0
    /\ fileContents = <<>>
    /\ fileIdx = 0
    /\ html = NoDocument
    /\ result = NoResult
    /\ found = {}
    /\ log = <<>>
    /\ ExprIdle

\* The handler's position after the directory at index idx gave the files rest
AfterDirectory(idx, rest) ==
    IF rest # <<>> THEN "dir"
    ELSE IF idx < Len(options.paths.list) THEN "paths"
    ELSE IF options.files # <<>> THEN "files"
    ELSE "build"

Finish(r) ==
    /\ result' = r
    /\ log' = Append(log, [fs |-> fs.name, status |-> r.status, icons |-> r.icons])
    /\ pc' = "idle"
    /\ scanIdx' = 0
    /\ fileContents' = <<>>
    /\ fileIdx' = 0

Threw == [status |-> "threw", icons |-> <<>>, document |-> NoDocument]

\* The host calls handler(html).  Iterating absent paths throws at once.
Invoke ==
    /\ pc = "idle"
    /\ Len(log) < MaxRuns
    /\ \E h \in Documents : html' = h
    /\ found' = {}
    /\ IF ~options.paths.given
       THEN Finish(Threw)
       ELSE /\ result' = NoResult
            /\ pc' = AfterDirectory(0, <<>>)
            /\ scanIdx' = 1
            /\ fileIdx' = 1
            /\ UNCHANGED <<fileContents, log>>
    /\ UNCHANGED <<options, icons, fs, exprVars>>

\* const fileContents = await getReactFileContents(path.resolve(cwd, scanPath))
ScanPath ==
    /\ pc = "paths"
    /\ LET got == getReactFileContents(fs, options.paths.list[scanIdx])
       IN  IF got.threw
           THEN Finish(Threw)
           ELSE /\ fileContents' = got.files
                /\ pc' = AfterDirectory(scanIdx, got.files)
                /\ scanIdx' = IF got.files = <<>> THEN scanIdx + 1 ELSE scanIdx
                /\ UNCHANGED <<result, log, fileIdx>>
    /\ UNCHANGED <<options, icons, fs, html, found, exprVars>>

\* await processReactFile(file, icons, variant, iconProps), for the next file
ProcessDirectoryFile ==
    /\ pc = "dir"
    /\ LET file == Head(fileContents)
       IN  /\ icons' = processReactFile(file, icons, options.variant, options.iconProps)
           /\ found' = found \cup
                  Range(processReactFile(file, <<>>, options.variant, options.iconProps))
    /\ fileContents' = Tail(fileContents)
    /\ pc' = AfterDirectory(scanIdx, Tail(fileContents))
    /\ scanIdx' = IF Tail(fileContents) = <<>> THEN scanIdx + 1 ELSE scanIdx
    /\ UNCHANGED <<options, fs, fileIdx, html, result, log, exprVars>>

\* The loop over files without its try and catch: a failed read rejects the handler
ProcessExplicitFileUncaught ==
    /\ pc = "files"
    /\ LET filePath == options.files[fileIdx]
           read == fs.files[filePath]
           file == [path |-> <<filePath>>, content |-> read.content]
       IN  IF read.readable
           THEN /\ icons' = processReactFile(file, icons, options.variant,
                                             options.iconProps)
                /\ found' = found \cup
                       Range(processReactFile(file, <<>>, options.variant,
                                              options.iconProps))
                /\ fileIdx' = fileIdx + 1
                /\ pc' = IF fileIdx < Len(options.files) THEN "files" ELSE "build"
                /\ UNCHANGED <<scanIdx, fileContents, result, log>>
           ELSE /\ Finish([status |-> "threw", icons |-> <<>>, document |-> NoDocument])
                /\ UNCHANGED <<icons, found>>
    /\ UNCHANGED <<options, fs, html, exprVars>>

\* One turn of the loop over files: read, then process; a failed read is warned about
ProcessExplicitFile ==
    /\ pc = "files"
    /\ LET filePath == options.files[fileIdx]
           read == fs.files[filePath]
           file == [path |-> <<filePath>>, content |-> read.content]
       IN  IF read.readable
           THEN /\ icons' = processReactFile(file, icons, options.variant,
                                             options.iconProps)
                /\ found' = found \cup
                       Range(processReactFile(file, <<>>, options.variant,
                                              options.iconProps))
           ELSE UNCHANGED <<icons, found>>
    /\ fileIdx' = fileIdx + 1
    /\ pc' = IF fileIdx < Len(options.files) THEN "files" ELSE "build"
    /\ UNCHANGED <<options, fs, scanIdx, fileContents, html, result, log, exprVars>>

\* document.head.appendChild(node) in place of prepend
HeadAppend(document, node) == [document EXCEPT !.head = @ \o <<node>>]

\* document.head.prepend(node)
HeadPrepend(document, node) == [document EXCEPT !.head = <<node>> \o @]

\* parseHTML, the final list, the link, document.head.prepend, return
BuildLink ==
    /\ pc = "build"
    /\ LET allIcons == AllIcons(icons)
           iconsLink == createMaterialSymbolsLink(options.variant, options.opsz,
                            options.wght, options.FILL, options.GRAD, allIcons)
       IN  Finish([status |-> "returned", icons |-> allIcons,
                   document |-> HeadPrepend(html, iconsLink)])
    /\ UNCHANGED <<options, icons, fs, html, found, exprVars>>

\* Between two invocations the sources are edited
EditFiles ==
    /\ pc = "idle"
    /\ 0 < Len(log) /\ Len(log) < MaxRuns
    /\ \E d \in FileSystems \ {fs} : fs' = d
    /\ UNCHANGED <<options, icons, pc, scanIdx, fileContents, fileIdx, html, result,
                   found, log, exprVars>>

Next ==
    \/ Invoke
    \/ ScanPath
    \/ ProcessDirectoryFile
    \/ ProcessExplicitFile
    \/ BuildLink
    \/ EditFiles

Spec == Init /\ [][Next]_vars


(***************************************************************************)
(* The expression walker on its own: an expression tree is built from a    *)
(* leaf by wrapping it in conditionals, logical expressions and calls, and *)
(* extractIconsFromExpression is then applied to it.                       *)
(***************************************************************************)
ExprLeaves ==
    {StringLiteral(home),
     StringLiteral(<<" ">> \o menu \o <<"\n">>),
     StringLiteral(<<" ", "\t">>),
     StringLiteral(<<>>),
     TemplateLiteral(<<Quasi(search \o <<" ">>)>>, <<>>),
     TemplateLiteral(<<Quasi(login), Quasi(<<>>)>>, <<Identifier("suffix")>>),
     Identifier("iconName"),
     SpreadElement(StringLiteral(star)),
     CallExpression(<<>>),
     JSXEmptyExpression,
     Null}

SiblingLeaves ==
    {StringLiteral(<<" ">> \o logout),
     TemplateLiteral(<<Quasi(<<>>), Quasi(star)>>, <<StringLiteral(star)>>)}

Accumulators == {<<>>, <<home, star>>}

RECURSIVE Depth(_)
Depth(e) ==
    IF e.type = "ConditionalExpression"
    THEN 1 + (IF Depth(e.consequent) > Depth(e.alternate)
              THEN Depth(e.consequent) ELSE Depth(e.alternate))
    ELSE IF e.type = "LogicalExpression"
    THEN 1 + (IF Depth(e.left) > Depth(e.right) THEN Depth(e.left) ELSE Depth(e.right))
    ELSE IF e.type = "CallExpression" /\ e.arguments # <<>>
    THEN 1 + (CHOOSE d \in {Depth(e.arguments[i]) : i \in 1..Len(e.arguments)} :
                 \A i \in 1..Len(e.arguments) : Depth(e.arguments[i]) <= d)
    ELSE 0

HandlerIdle ==
    /\ options = CHOOSE o \in Options : o.variant = "rounded" /\ o.safelist = <<>>
    /\ icons = <<>>
    /\ fs = FsBefore
    /\ pc = "idle"
    /\ scanIdx = 0
    /\ fileContents = <<>>
    /\ fileIdx = 0
    /\ html = NoDocument
    /\ result = NoResult
    /\ found = {}
    /\ log = <<>>

InitExpr ==
    /\ HandlerIdle
    /\ expr \in ExprLeaves
    /\ acc \in Accumulators
    /\ walked = FALSE
    /\ matched = NoMatch
    /\ element = NoElement

CanWrap == ~walked /\ Depth(expr) < MaxDepth

\* test ? expr : leaf, or test ? leaf : expr; the test is itself a string literal
WrapConditional ==
    /\ CanWrap
    /\ \E leaf \in SiblingLeaves :
           \/ expr' = ConditionalExpression(StringLiteral(star), expr, leaf)
           \/ expr' = ConditionalExpression(StringLiteral(star), leaf, expr)
    /\ UNCHANGED <<handlerVars, acc, walked, matched, element>>

\* expr && leaf, or leaf || expr
WrapLogical ==
    /\ CanWrap
    /\ \E leaf \in SiblingLeaves :
           \/ expr' = LogicalExpression(expr, leaf)
           \/ expr' = LogicalExpression(leaf, expr)
    /\ UNCHANGED <<handlerVars, acc, walked, matched, element>>

\* f(expr), f(expr, leaf) or f(leaf, expr)
WrapCall ==
    /\ CanWrap
    /\ \/ expr' = CallExpression(<<expr>>)
       \/ \E leaf \in SiblingLeaves :
              \/ expr' = CallExpression(<<expr, leaf>>)
              \/ expr' = CallExpression(<<leaf, expr>>)
    /\ UNCHANGED <<handlerVars, acc, walked, matched, element>>

\* extractIconsFromExpression(expr, acc)
Walk ==
    /\ ~walked
    /\ acc' = extractIconsFromExpression(expr, acc)
    /\ walked' = TRUE
    /\ UNCHANGED <<handlerVars, expr, matched, element>>

NextExpr ==
    \/ WrapConditional
    \/ WrapLogical
    \/ WrapCall
    \/ Walk

SpecExpr == InitExpr /\ [][NextExpr]_vars


(***************************************************************************)
(* What the claims are stated with                                         *)
(***************************************************************************)
Returned == pc = "idle" /\ result.status = "returned"
Link(doc) == doc.head[1]
HasLink(doc) ==
    /\ doc.head # <<>>
    /\ Link(doc).tag = "link"
    /\ Link(doc).rel = "stylesheet"
    /\ Link(doc).href[1] = "https://fonts.googleapis.com/css2?family="
FsNamed(n) == CHOOSE d \in FileSystems : d.name = n

\* The names one readable, parsable file holds for the configured variant and props
NamesOf(content) ==
    Range(Traverse(content.elements, <<>>, options.variant, options.iconProps))

\* A listing or a read of a supported source file under this directory fails
RECURSIVE CannotCollect(_)
CannotCollect(node) ==
    \/ ~node.readable
    \/ \E i \in 1..Len(node.entries) :
           LET e == node.entries[i]
           IN  \/ e.kind = "dir" /\ CannotCollect(e.dir)
               \/ /\ e.kind = "file"
                  /\ e.name[Len(e.name)] \in {".tsx", ".jsx", ".js"}
                  /\ ~e.readable

\* a is before b in the lexicographic order of their code units
LexLess(a, b) ==
    \E k \in 0..Len(a) :
        /\ k <= Len(b)
        /\ \A i \in 1..k : a[i] = b[i]
        /\ \/ k = Len(a) /\ k < Len(b)
           \/ k < Len(a) /\ k < Len(b) /\ Code[a[k + 1]] < Code[b[k + 1]]

\* The names of list, each but the first after a comma
RECURSIVE CommaJoined(_)
CommaJoined(list) ==
    IF list = <<>> THEN <<>>
    ELSE LET front == SubSeq(list, 1, Len(list) - 1)
         IN  IF front = <<>> THEN list[Len(list)]
             ELSE CommaJoined(front) \o <<",">> \o list[Len(list)]

\* C1 as stated: at every return of the handler, every string of the safelist is in
\* the icon list handed to the link builder.
C1_SafelistInList ==
    Returned => Range(options.safelist) \subseteq Range(result.icons)

\* C1, amended: at every return of the handler, every string of the safelist other
\* than the empty string is in the icon list handed to the link builder.
C1_NonEmptySafelistInList ==
    Returned =>
        \A name \in Range(options.safelist) :
            name # <<>> => name \in Range(result.icons)

\* C1 witness: a safelist name no scanned file holds is in the returned list.
C1_Witness ==
    /\ Returned
    /\ \E name \in Range(options.safelist) :
           name \notin found /\ name \in Range(result.icons)

\* C2: the icon list an invocation emits holds only safelist names and names
\* found in the files scanned during that same invocation.
C2_NoStateAcrossInvocations ==
    Returned => Range(result.icons) \subseteq (Range(options.safelist) \cup found)

\* C3 as stated: every invocation of a plugin that was given paths ends by
\* returning a document with the stylesheet link, whatever the listings give.
C3_AlwaysReturnsLink ==
    (pc = "idle" /\ log # <<>> /\ options.paths.given) =>
        result.status = "returned" /\ HasLink(result.document)

\* What a running invocation still has to do: the directories to list, the
\* files of the listed directory to process, and the explicit files and the link
Rank ==
    <<IF pc = "paths" THEN Len(options.paths.list) - scanIdx + 1
      ELSE IF pc = "dir" THEN Len(options.paths.list) - scanIdx
      ELSE 0,
      Len(fileContents),
      IF pc \in {"paths", "dir"} THEN Len(options.files) + 1
      ELSE IF pc = "files" THEN Len(options.files) - fileIdx + 2
      ELSE IF pc = "build" THEN 1
      ELSE 0>>

\* r is before s in the lexicographic order of triples of naturals
RankLess(r, s) ==
    \/ r[1] < s[1]
    \/ r[1] = s[1] /\ r[2] < s[2]
    \/ r[1] = s[1] /\ r[2] = s[2] /\ r[3] < s[3]

\* C3, amended: an invocation of a plugin that was given paths ends by throwing
\* exactly when a listing or a read under one of the paths fails, and otherwise
\* by returning a document whose head starts with the stylesheet link, zero icons
\* or not; an invocation under way always has its next step to take, and every
\* step leaves it less to do, so it ends.
C3_ReturnsLinkUnlessCollectFails ==
    /\ [](/\ pc \in {"idle", "paths", "dir", "files", "build"}
          /\ pc = "paths" =>
                 options.paths.given /\ scanIdx \in 1..Len(options.paths.list)
          /\ pc = "dir" => fileContents # <<>>
          /\ pc = "files" => fileIdx \in 1..Len(options.files))
    /\ [][pc # "idle" => RankLess(Rank', Rank)]_vars
    /\ [](options.paths.given =>
            /\ \A k \in 1..Len(log) :
                   /\ log[k].status \in {"returned", "threw"}
                   /\ log[k].status = "threw" <=>
                          \E i \in 1..Len(options.paths.list) :
                              CannotCollect(
                                  FsNamed(log[k].fs).roots[options.paths.list[i]])
            /\ (pc = "idle" /\ log # <<>>) =>
                   /\ result.status = log[Len(log)].status
                   /\ result.status = "returned" => HasLink(result.document))

\* C3 witness: an invocation that found no icon returned a document with the link.
C3_Witness ==
    /\ Returned
    /\ result.icons = <<>>
    /\ HasLink(result.document)
    /\ Len(result.document.head) > 1

\* The file the next step hands to processReactFile, when there is one
Processing ==
    IF pc = "dir" THEN [is |-> TRUE, content |-> Head(fileContents).content]
    ELSE IF pc = "files" /\ fs.files[options.files[fileIdx]].readable
    THEN [is |-> TRUE, content |-> fs.files[options.files[fileIdx]].content]
    ELSE [is |-> FALSE, content |-> NoContent]

\* C4: a call of processReactFile on a file that does not parse adds no name and
\* does not end the invocation, and a call on any other file adds exactly that
\* file's names to what the accumulator held, whatever was processed before.
C4_ParseFailureIsPerFile ==
    [][Processing.is =>
          /\ pc' # "idle"
          /\ result' = result
          /\ IF Processing.content.parses
             THEN Range(icons') = Range(icons) \cup NamesOf(Processing.content)
             ELSE icons' = icons]_vars

\* C4 witness: a scan went over a file that does not parse, holding the name login,
\* and a file after it contributed its name.
C4_Witness ==
    /\ Returned
    /\ Len(log) = 1
    /\ log[1].fs = "before"
    /\ options.paths.list = <<"src", "lib">>
    /\ options.variant = "outlined"
    /\ login \notin Range(icons)
    /\ logout \in Range(icons)

\* The explicit file of the next step cannot be read
ReadFails == pc = "files" /\ ~fs.files[options.files[fileIdx]].readable

\* C5: a read failure in the loop over files leaves the accumulator as it was and
\* moves on to the next entry; the loop never ends the invocation by throwing, the
\* step after it returns the link, and the returned list holds the names of every
\* readable entry of files.
C5_UnreadableFileSkipped ==
    /\ [][ReadFails =>
             /\ icons' = icons
             /\ fileIdx' = fileIdx + 1
             /\ result' = result
             /\ pc' = IF fileIdx < Len(options.files) THEN "files" ELSE "build"]_vars
    /\ [][pc = "build" => result'.status = "returned" /\ HasLink(result'.document)]_vars
    /\ [](Returned =>
             \A i \in 1..Len(options.files) :
                 LET read == FsNamed(log[Len(log)].fs).files[options.files[i]]
                 IN  (read.readable /\ read.content.parses) =>
                         NamesOf(read.content) \subseteq Range(result.icons))

\* C5 witness: files names an unreadable path and then a readable one, and the
\* invocation returned the link with the readable one's name.
C5_Witness ==
    /\ Returned
    /\ options.files = <<"gone.tsx", "extra.tsx">>
    /\ ~fs.files["gone.tsx"].readable
    /\ login \in Range(result.icons)
    /\ login \notin Range(options.safelist)
    /\ HasLink(result.document)

\* C6: a plugin created without variant or without paths lists no directory,
\* processes no file and produces no link.
C6_MissingConfigFailsFast ==
    (options.variant = Undefined \/ ~options.paths.given) =>
        /\ pc = "idle"
        /\ result.status # "returned"
        /\ found = {}

\* C7: every member of the accumulator is a trimmed, non-empty string.
C7_IconNamesTrimmedNonEmpty ==
    \A name \in Range(icons) : name # <<>> /\ Trim(name) = name

\* C8: two invocations in succession over the same file system that both return
\* hand the same icon list to the link builder.
C8_Idempotent ==
    \A k \in 1..Len(log) :
        (/\ k < Len(log)
         /\ log[k].status = "returned"
         /\ log[k + 1].status = "returned"
         /\ log[k].fs = log[k + 1].fs) => log[k].icons = log[k + 1].icons

\* C8 witness: two returned invocations over the same files, with icons found.
C8_Witness ==
    /\ Len(log) >= 2
    /\ log[1].status = "returned"
    /\ log[2].status = "returned"
    /\ log[1].fs = log[2].fs
    /\ Len(log[2].icons) >= 2
    /\ found # {}

\* The family identifier of each variant, as the stylesheet provider spells it
FamilyOf(variant) ==
    IF variant = "sharp" THEN "Material+Symbols+Sharp"
    ELSE IF variant = "rounded" THEN "Material+Symbols+Rounded"
    ELSE "Material+Symbols+Outlined"

C9_ExampleReached ==
    /\ Returned
    /\ options.variant = "rounded"
    /\ Range(icons) = {home, search}
    /\ options.opsz = DefaultAxes.opsz

\* The nodes the walker reaches from e: e itself, both branches of a conditional,
\* both operands of a logical expression, every argument of a call
RECURSIVE Reached(_)
Reached(e) ==
    {e} \cup
    (IF e.type = "ConditionalExpression"
     THEN Reached(e.consequent) \cup Reached(e.alternate)
     ELSE IF e.type = "LogicalExpression"
     THEN Reached(e.left) \cup Reached(e.right)
     ELSE IF e.type = "CallExpression"
     THEN UNION {Reached(e.arguments[i]) : i \in 1..Len(e.arguments)}
     ELSE {})

\* The values of the string literals and of the templates with one static segment
\* and no interpolation among the nodes reached
StaticTexts(e) ==
    {n.value : n \in {m \in Reached(e) : m.type = "StringLiteral"}} \cup
    {n.quasis[1].cooked :
        n \in {m \in Reached(e) :
                  /\ m.type = "TemplateLiteral"
                  /\ m.expressions = <<>>
                  /\ Len(m.quasis) = 1}}

\* C10: applied to any expression, the walker adds to the accumulator exactly the
\* trimmed, non-empty static texts reached; what the accumulator held stays, in
\* its order.
C10_WalkerCollectsExactly ==
    [][(~walked /\ walked') =>
          /\ Range(acc') =
                 Range(acc) \cup ({Trim(t) : t \in StaticTexts(expr)} \ {<<>>})
          /\ SubSeq(acc', 1, Len(acc)) = acc]_vars

\* C10 witness: the walker was applied to a tree two levels deep whose literal
\* test and interpolated templates gave nothing and whose branches gave names.
C10_Witness ==
    /\ walked
    /\ Depth(expr) = 2
    /\ expr.type = "ConditionalExpression"
    /\ expr.consequent.type = "CallExpression"
    /\ logout \in Range(acc)
    /\ menu \in Range(acc)
    /\ star \notin Range(acc)


(***************************************************************************)
(* The JSXElement visitor on its own: an element is given attributes one   *)
(* by one and the visitor of processReactFile is then applied to it.       *)
(***************************************************************************)
MaxAttrs == 2

AttributeNames == {"className", "leftIcon", "icon"}

AttributeValues ==
    {StringLiteral(<<" ">> \o search),
     RoundedClass,
     JSXExpressionContainer(ConditionalExpression(
         Identifier("busy"), StringLiteral(logout),
         TemplateLiteral(<<Quasi(login)>>, <<>>))),
     JSXElementChild,
     Null}

ElementIconProps == {<<>>, <<"leftIcon">>, <<"icon", "leftIcon">>}

ElementOptions ==
    {[variant |-> v, paths |-> [given |-> TRUE, list |-> <<>>], safelist |-> <<>>,
      files |-> <<>>, iconProps |-> ip, opsz |-> DefaultAxes.opsz,
      wght |-> DefaultAxes.wght, FILL |-> DefaultAxes.FILL, GRAD |-> DefaultAxes.GRAD] :
        v \in {"rounded", "sharp"}, ip \in ElementIconProps}

\* <Tag>home</Tag>, attributes still to come
InitElement ==
    /\ options \in ElementOptions
    /\ icons = <<>>
    /\ fs = FsBefore
    /\ pc = "idle"
    /\ scanIdx = 0
    /\ fileContents = <<>>
    /\ fileIdx = 0
    /\ html = NoDocument
    /\ result = NoResult
    /\ found = {}
    /\ log = <<>>
    /\ expr = Null
    /\ acc = <<>>
    /\ walked = FALSE
    /\ matched = NoMatch
    /\ element = JSXElement(<<>>, <<JSXText(<<"\n">> \o home)>>)

\* One more attribute: name=value, or a spread
AddAttribute ==
    /\ ~walked
    /\ Len(element.attributes) < MaxAttrs
    /\ \/ \E n \in AttributeNames, v \in AttributeValues :
              element' = [element EXCEPT !.attributes = Append(@, JSXAttribute(n, v))]
       \/ element' = [element EXCEPT !.attributes = Append(@, JSXSpreadAttribute)]
    /\ UNCHANGED <<handlerVars, expr, acc, walked, matched>>

\* The JSXElement visitor of processReactFile, applied to element
Visit ==
    /\ ~walked
    /\ acc' = VisitJSXElement(element, acc, options.variant, options.iconProps)
    /\ walked' = TRUE
    /\ UNCHANGED <<handlerVars, expr, matched, element>>

NextElement ==
    \/ AddAttribute
    \/ Visit

SpecElement == InitElement /\ [][NextElement]_vars

\* text holds marker as a run of consecutive pieces
Contains(text, marker) ==
    \E i, j \in 1..Len(text) : SubSeq(text, i, j) = marker

\* The nodes the class matcher reaches from e: e itself, the expression of a
\* container, every argument of a call, both branches of a conditional, both
\* operands of a logical expression
RECURSIVE ClassReached(_)
ClassReached(e) ==
    {e} \cup
    (IF e.type = "JSXExpressionContainer" THEN ClassReached(e.expression)
     ELSE IF e.type = "ConditionalExpression"
     THEN ClassReached(e.consequent) \cup ClassReached(e.alternate)
     ELSE IF e.type = "LogicalExpression"
     THEN ClassReached(e.left) \cup ClassReached(e.right)
     ELSE IF e.type = "CallExpression"
     THEN UNION {ClassReached(e.arguments[i]) : i \in 1..Len(e.arguments)}
     ELSE {})

\* The string literals' values and the templates' static segments among them
ClassTexts(e) ==
    {n.value : n \in {m \in ClassReached(e) : m.type = "StringLiteral"}} \cup
    UNION {{n.quasis[i].cooked : i \in {k \in 1..Len(n.quasis) : n.quasis[k].hasCooked}} :
              n \in {m \in ClassReached(e) : m.type = "TemplateLiteral"}}

\* The marker string of each variant
MarkerOf(variant) ==
    IF variant = "sharp" THEN <<"material-symbols-sharp">>
    ELSE IF variant = "rounded" THEN <<"material-symbols-rounded">>
    ELSE <<"material-symbols-outlined">>

\* The statically determinable names of an attribute value
ValueNames(value) ==
    IF value.type = "StringLiteral" THEN {Trim(value.value)} \ {<<>>}
    ELSE IF value.type = "JSXExpressionContainer"
    THEN {Trim(t) : t \in StaticTexts(value.expression)} \ {<<>>}
    ELSE {}

\* The positions of the attributes called name
Called(attributes, name) ==
    {i \in 1..Len(attributes) :
        attributes[i].type = "JSXAttribute" /\ attributes[i].name = name}

\* The element has a class attribute, the first of which holds the marker
ClassMatches(e, variant) ==
    /\ Called(e.attributes, "className") # {}
    /\ LET first == CHOOSE i \in Called(e.attributes, "className") :
                        \A j \in Called(e.attributes, "className") : i <= j
       IN  \E t \in ClassTexts(e.attributes[first].value) :
               Contains(t, MarkerOf(variant))

\* The trimmed, non-empty texts of the element's text children
ChildNames(e) ==
    {Trim(e.children[i].value) :
        i \in {k \in 1..Len(e.children) : e.children[k].type = "JSXText"}} \ {<<>>}

\* C11: the visitor adds the names of every attribute whose name is in iconProps,
\* class match or not, and with iconProps empty an element without a matching
\* class adds nothing.
C11_EveryIconPropAttribute ==
    [][(~walked /\ walked') =>
          /\ \A i \in 1..Len(element.attributes) :
                 (/\ element.attributes[i].type = "JSXAttribute"
                  /\ element.attributes[i].name \in Range(options.iconProps)) =>
                     ValueNames(element.attributes[i].value) \subseteq Range(acc')
          /\ (options.iconProps = <<>> /\ ~ClassMatches(element, options.variant)) =>
                 acc' = acc]_vars

\* C11, as the code has it: the visitor adds exactly the names of the first
\* attribute of each name in iconProps, class match or not, and the children's
\* names when the class matches; with iconProps empty an element without a
\* matching class adds nothing.
C11_FirstAttributeOfEachName ==
    [][(~walked /\ walked') =>
          /\ Range(acc') =
                 Range(acc)
                 \cup (IF ClassMatches(element, options.variant)
                       THEN ChildNames(element) ELSE {})
                 \cup UNION {ValueNames(element.attributes[i].value) :
                        i \in {k \in 1..Len(element.attributes) :
                                 \E n \in Range(options.iconProps) :
                                     /\ k \in Called(element.attributes, n)
                                     /\ \A j \in Called(element.attributes, n) : k <= j}}
          /\ (options.iconProps = <<>> /\ ~ClassMatches(element, options.variant)) =>
                 acc' = acc]_vars

\* C11: an element without a matching class gave the name of its icon prop.
C11_PropWithoutClassReached ==
    /\ walked
    /\ options.iconProps = <<"leftIcon">>
    /\ ~ClassMatches(element, options.variant)
    /\ Len(element.attributes) = 1
    /\ acc = <<search>>

\* The elements of a document
ElementCount(doc) == Len(doc.head) + Len(doc.body)

\* C12: the returned document is the parsed one with one element more, the
\* generated link, which is the first child of the head, before everything that
\* was there; every other node is as it was.
C12_OnlyPrependsLink ==
    Returned =>
        /\ ElementCount(result.document) = ElementCount(html) + 1
        /\ Link(result.document) =
               createMaterialSymbolsLink(options.variant, options.opsz, options.wght,
                                         options.FILL, options.GRAD, result.icons)
        /\ Tail(result.document.head) = html.head
        /\ result.document.body = html.body
        /\ \A i \in 2..Len(result.document.head) :
               result.document.head[i].tag = "link" => HasLink(result.document)

\* C12: a document whose head already held a stylesheet came back with the
\* generated link ahead of it.
C12_LinkBeforeStylesheetReached ==
    /\ Returned
    /\ Stylesheet \in Range(html.head)
    /\ HasLink(result.document)
    /\ Link(result.document) # Stylesheet
    /\ result.document.head[3] = Stylesheet
    /\ result.document.body # <<>>

(***************************************************************************)
(* The class matcher on its own: a class value is grown from a leaf by     *)
(* wrapping, and the visitor's class check is then made on an element      *)
(* <Tag className=...>home</Tag> for one of the variants.                  *)
(***************************************************************************)
RoundedMarker == <<"material-symbols-rounded">>

ClassLeaves ==
    {RoundedClass,
     StringLiteral(<<"material-symbols-sharp">>),
     StringLiteral(<<"b", "t", "n">>),
     TemplateLiteral(<<Quasi(RoundedMarker)>>, <<>>),
     TemplateLiteral(<<Quasi(<<"b", " ">>), Quasi(<<" ", "material-symbols-outlined">>)>>,
                     <<Identifier("size")>>),
     TemplateLiteral(<<Quasi(<<"b", " ">>), Quasi(<<>>)>>, <<StringLiteral(RoundedMarker)>>),
     Identifier("cls"),
     SpreadElement(StringLiteral(RoundedMarker)),
     CallExpression(<<>>),
     JSXEmptyExpression,
     JSXElementChild,
     Null}

ClassSiblings == {StringLiteral(<<"material-symbols-sharp", " ", "x">>), Identifier("active")}

InitClass ==
    /\ HandlerIdle
    /\ expr \in ClassLeaves
    /\ acc = <<>>
    /\ walked = FALSE
    /\ matched = NoMatch
    /\ element = NoElement

\* cond ? expr : leaf and the like; the test of a conditional holds a marker too
WrapClass ==
    /\ CanWrap
    /\ \/ expr' = CallExpression(<<expr>>)
       \/ \E leaf \in ClassSiblings :
              \/ expr' = ConditionalExpression(StringLiteral(RoundedMarker), expr, leaf)
              \/ expr' = ConditionalExpression(StringLiteral(RoundedMarker), leaf, expr)
              \/ expr' = LogicalExpression(expr, leaf)
              \/ expr' = LogicalExpression(leaf, expr)
              \/ expr' = CallExpression(<<expr, leaf>>)
              \/ expr' = CallExpression(<<leaf, expr>>)
    /\ UNCHANGED <<handlerVars, acc, walked, matched, element>>

\* The visitor meets <Tag className=expr> or <Tag className={expr}>: the class
\* check, and the children collected if it says yes
Match ==
    /\ ~walked
    /\ \E v \in {"rounded", "sharp", "outlined"}, braces \in BOOLEAN :
           LET classValue == IF braces THEN JSXExpressionContainer(expr) ELSE expr
               node == JSXElement(<<JSXAttribute("className", classValue)>>,
                                  <<JSXText(<<" ">> \o home)>>)
           IN  /\ element' = node
               /\ matched' = [asked |-> TRUE, variant |-> v,
                              answer |-> hasMaterialSymbolsClass(
                                             classValue, variantToClassNameMap(v))]
               /\ acc' = VisitJSXElement(node, acc, v, <<>>)
    /\ walked' = TRUE
    /\ UNCHANGED <<handlerVars, expr>>

NextClass ==
    \/ WrapClass
    \/ Match

SpecClass == InitClass /\ [][NextClass]_vars

\* C13: the matcher says yes exactly when a string literal or a static segment
\* of a template literal, reached through containers, call arguments,
\* conditional branches and logical operands, holds the variant's marker; when
\* it says no the element's children are not collected.
C13_MatcherExact ==
    matched.asked =>
        LET classValue == element.attributes[1].value
        IN  /\ matched.answer <=>
                   \E t \in ClassTexts(classValue) : Contains(t, MarkerOf(matched.variant))
            /\ classValue.type \notin
                   {"StringLiteral", "TemplateLiteral", "JSXExpressionContainer",
                    "CallExpression", "ConditionalExpression", "LogicalExpression"}
                   => ~matched.answer
            /\ acc = IF matched.answer THEN <<home>> ELSE <<>>

\* C13: a marker in the second segment of an interpolated template, inside a
\* conditional inside a call inside a container, was found.
C13_DeepTemplateMatched ==
    /\ matched.asked
    /\ matched.answer
    /\ matched.variant = "outlined"
    /\ element.attributes[1].value.type = "JSXExpressionContainer"
    /\ expr.type = "CallExpression"
    /\ Len(expr.arguments) = 2
    /\ expr.arguments[2].type = "ConditionalExpression"
    /\ expr.arguments[2].alternate.type = "TemplateLiteral"
    /\ expr.arguments[2].alternate.expressions # <<>>
    /\ acc = <<home>>

\* C13: only another variant's marker occurred and the children were left alone.
C13_OtherVariantReached ==
    /\ matched.asked
    /\ ~matched.answer
    /\ matched.variant = "rounded"
    /\ \E t \in ClassTexts(element.attributes[1].value) : Contains(t, MarkerOf("sharp"))
    /\ acc = <<>>

=============================================================================
